---- MODULE Spec2Model ----
(***************************************************************************)
(* Spatial partitioning, Gaussian anchor imputation and the evaluation    *)
(* sweeps of the GHF (geothermal heat flux) analysis scripts.              *)
(*                                                                         *)
(* Units.  Coordinates are integers in thousandths of a degree, GHF       *)
(* values are integers in thousandths of mW/m^2 (51.3 is 51300),           *)
(* distances and radii are whole metres.  A missing value (numpy NaN) is   *)
(* the number the CSV reader maps to NaN; every comparison with it is      *)
(* false, as in IEEE 754.                                                  *)
(*                                                                         *)
(* A DataFrame is [cols |-> set of column names, rows |-> sequence of      *)
(* rows]; a row is a function from its columns and "index" (the pandas     *)
(* row label) to values.                                                   *)
(***************************************************************************)
EXTENDS Integers, Sequences, FiniteSets, TLC

VARIABLES
    data,   \* the caller's DataFrame object (the one passed to the operations)
    call,   \* the latest call: operation, arguments, the frame as passed in
    ret,    \* what the latest call returned
    memo,   \* the first call of split, its result, and what followed (<<>> before it)
    rng,    \* state of the process-wide numpy random source
    pc,           \* where the running script or function stands
    centers,      \* the list of sampled prediction centers
    loop,         \* the indices of the running loops
    r2s,          \* r2s[idx_ctr][idx_t] of plot_performance_analysis
    rmses,        \* rmses of the running sweep (array or list)
    radius_error, \* the latest hstack of plot_performance_analysis
    radii_errors, \* the stacked table, without its first row of zeros
    y0,           \* the reference prediction of the sensitivity sweep
    stderr,       \* the configurations and measures written to stderr, in order
    plotted,      \* the means a sweep collects for its plot
    err,          \* the exception that ended the run, "none" if none
    names         \* the module-level names bound so far

sweepvars ==
    <<pc, centers, loop, r2s, rmses, radius_error, radii_errors, y0, stderr,
      plotted, err, names>>

vars == <<data, call, ret, memo, rng, sweepvars>>

----------------------------------------------------------------------------
(* Bounds of the model *)

MaxSweepRows == 3   \* rows of a dataset given to the sweeps
MaxRows == 3        \* rows of a dataset given to split / split_by_distance
MaxFillRows == 2    \* rows of a dataset given to fill_in_greenland_GHF
RngStates == 2      \* distinguishable states of the process-wide random source

----------------------------------------------------------------------------
(* Program constants *)

NaN == -999999              \* read_csv: na_values=-999999
max_ice_core_dist == 150000    \* 150. km, in metres
SENTINEL_GHF == 135000      \* `data.GHF == 135.0`

IsNaN(v) == v = NaN

\* The ice cores: lon, lat, ghf, rad (km) and core name.
GREENLAND ==
    << [core |-> "GRIP",  lat |-> 72580, lon |-> -37640, ghf |-> 51300,  rad |-> 1000],
       [core |-> "GISP2", lat |-> 72600, lon |-> -38500, ghf |-> 60000,  rad |-> 1000],
       [core |-> "DYE3",  lat |-> 65180, lon |-> -43820, ghf |-> 20000,  rad |-> 1000],
       [core |-> "NGRIP", lat |-> 75100, lon |-> -42320, ghf |-> 135000, rad |-> 150] >>

----------------------------------------------------------------------------
(* haversine_distance *)

\* Values of the haversine formula (Earth radius 6367 km) between the
\* locations the model uses, in whole metres (truncated), with longitude and
\* latitude in thousandths of a degree: the four ice cores, a point on the
\* 150 km circle around NGRIP and a point 151 km due south of NGRIP, (0,0),
\* a record at (-40, 55.006), that record's coordinates rounded to two
\* decimals, a record 1199.8 km due south of it, and the whole-degree point
\* (-38, 73).
\* HaversineM[p][c] is the distance of point p from center c, <<lon, lat>>.
HaversineM ==
    << -37640, 72580>> :>
      (  << -37640, 72580>> :> 0 @@ << -38500, 72600>> :> 28680 @@ << -43820, 65180>> :> 857673
       @@ << -42320, 75100>> :> 315017 @@ << -42320, 73750>> :> 198877 @@ << -42320, 73740>> :> 198187
       @@ << 0, 0>> :> 8477371 @@ << -40000, 55006>> :> 1955981 @@ << -40000, 55010>> :> 1955537
       @@ << -40000, 44209>> :> 3155168 @@ << -38000, 73000>> :> 48149) @@
    << -38500, 72600>> :>
      (  << -37640, 72580>> :> 28680 @@ << -38500, 72600>> :> 0 @@ << -43820, 65180>> :> 850792
       @@ << -42320, 75100>> :> 301721 @@ << -42320, 73750>> :> 177218 @@ << -42320, 73740>> :> 176443
       @@ << 0, 0>> :> 8497231 @@ << -40000, 55006>> :> 1956372 @@ << -40000, 55010>> :> 1955928
       @@ << -40000, 44209>> :> 3155936 @@ << -38000, 73000>> :> 47389) @@
    << -43820, 65180>> :>
      (  << -37640, 72580>> :> 857673 @@ << -38500, 72600>> :> 850792 @@ << -43820, 65180>> :> 0
       @@ << -42320, 75100>> :> 1103727 @@ << -42320, 73750>> :> 954060 @@ << -42320, 73740>> :> 952952
       @@ << 0, 0>> :> 8042110 @@ << -40000, 55006>> :> 1149705 @@ << -40000, 55010>> :> 1149266
       @@ << -40000, 44209>> :> 2342268 @@ << -38000, 73000>> :> 898117) @@
    << -42320, 75100>> :>
      (  << -37640, 72580>> :> 315017 @@ << -38500, 72600>> :> 301721 @@ << -43820, 65180>> :> 1103727
       @@ << -42320, 75100>> :> 0 @@ << -42320, 73750>> :> 150000 @@ << -42320, 73740>> :> 151130
       @@ << 0, 0>> :> 8783333 @@ << -40000, 55006>> :> 2235186 @@ << -40000, 55010>> :> 2234742
       @@ << -40000, 44209>> :> 3434638 @@ << -38000, 73000>> :> 267917) @@
    << -42320, 73750>> :>
      (  << -37640, 72580>> :> 198877 @@ << -38500, 72600>> :> 177218 @@ << -43820, 65180>> :> 954060
       @@ << -42320, 75100>> :> 150000 @@ << -42320, 73750>> :> 0 @@ << -42320, 73740>> :> 1111
       @@ << 0, 0>> :> 8674314 @@ << -40000, 55006>> :> 2085533 @@ << -40000, 55010>> :> 2085089
       @@ << -40000, 44209>> :> 3284869 @@ << -38000, 73000>> :> 160602) @@
    << -42320, 73740>> :>
      (  << -37640, 72580>> :> 198187 @@ << -38500, 72600>> :> 176443 @@ << -43820, 65180>> :> 952952
       @@ << -42320, 75100>> :> 151130 @@ << -42320, 73750>> :> 1111 @@ << -42320, 73740>> :> 0
       @@ << 0, 0>> :> 8673507 @@ << -40000, 55006>> :> 2084425 @@ << -40000, 55010>> :> 2083981
       @@ << -40000, 44209>> :> 3283760 @@ << -38000, 73000>> :> 160064) @@
    << 0, 0>> :>
      (  << -37640, 72580>> :> 8477371 @@ << -38500, 72600>> :> 8497231 @@ << -43820, 65180>> :> 8042110
       @@ << -42320, 75100>> :> 8783333 @@ << -42320, 73750>> :> 8674314 @@ << -42320, 73740>> :> 8673507
       @@ << 0, 0>> :> 0 @@ << -40000, 55006>> :> 7105288 @@ << -40000, 55010>> :> 7105599
       @@ << -40000, 44209>> :> 6300194 @@ << -38000, 73000>> :> 8521056) @@
    << -40000, 55006>> :>
      (  << -37640, 72580>> :> 1955981 @@ << -38500, 72600>> :> 1956372 @@ << -43820, 65180>> :> 1149705
       @@ << -42320, 75100>> :> 2235186 @@ << -42320, 73750>> :> 2085533 @@ << -42320, 73740>> :> 2084425
       @@ << 0, 0>> :> 7105288 @@ << -40000, 55006>> :> 0 @@ << -40000, 55010>> :> 444
       @@ << -40000, 44209>> :> 1199817 @@ << -38000, 73000>> :> 2001689) @@
    << -40000, 55010>> :>
      (  << -37640, 72580>> :> 1955537 @@ << -38500, 72600>> :> 1955928 @@ << -43820, 65180>> :> 1149266
       @@ << -42320, 75100>> :> 2234742 @@ << -42320, 73750>> :> 2085089 @@ << -42320, 73740>> :> 2083981
       @@ << 0, 0>> :> 7105599 @@ << -40000, 55006>> :> 444 @@ << -40000, 55010>> :> 0
       @@ << -40000, 44209>> :> 1200262 @@ << -38000, 73000>> :> 2001245) @@
    << -40000, 44209>> :>
      (  << -37640, 72580>> :> 3155168 @@ << -38500, 72600>> :> 3155936 @@ << -43820, 65180>> :> 2342268
       @@ << -42320, 75100>> :> 3434638 @@ << -42320, 73750>> :> 3284869 @@ << -42320, 73740>> :> 3283760
       @@ << 0, 0>> :> 6300194 @@ << -40000, 55006>> :> 1199817 @@ << -40000, 55010>> :> 1200262
       @@ << -40000, 44209>> :> 0 @@ << -38000, 73000>> :> 3201090) @@
    << -38000, 73000>> :>
      (  << -37640, 72580>> :> 48149 @@ << -38500, 72600>> :> 47389 @@ << -43820, 65180>> :> 898117
       @@ << -42320, 75100>> :> 267917 @@ << -42320, 73750>> :> 160602 @@ << -42320, 73740>> :> 160064
       @@ << 0, 0>> :> 8521056 @@ << -40000, 55006>> :> 2001689 @@ << -40000, 55010>> :> 2001245
       @@ << -40000, 44209>> :> 3201090 @@ << -38000, 73000>> :> 0)

haversine(row, center) ==
    HaversineM[<<row["Longitude_1"], row["Latitude_1"]>>][center]

\* One distance per row, in row order.
haversine_distance(frame, center) ==
    [i \in 1..Len(frame.rows) |-> haversine(frame.rows[i], center)]

----------------------------------------------------------------------------
(* DataFrame operations used by the code *)

\* frame[c] = values  (in place on the frame object)
WithColumn(frame, c, values) ==
    [cols |-> frame.cols \cup {c},
     rows |-> [i \in 1..Len(frame.rows) |->
                 [k \in DOMAIN frame.rows[i] \cup {c} |->
                     IF k = c THEN values[i] ELSE frame.rows[i][k]]]]

\* frame.drop(cs, axis=1)
DropColumns(frame, cs) ==
    [cols |-> frame.cols \ cs,
     rows |-> [i \in 1..Len(frame.rows) |->
                 [k \in DOMAIN frame.rows[i] \ cs |-> frame.rows[i][k]]]]

RECURSIVE Masked(_, _, _)
\* the first n rows whose mask entry is TRUE, in order
Masked(rows, mask, n) ==
    IF n = 0 THEN << >>
    ELSE IF mask[n] THEN Append(Masked(rows, mask, n - 1), rows[n])
    ELSE Masked(rows, mask, n - 1)

\* frame[mask]: the rows where the boolean mask (one entry per row) is True
Filter(frame, mask) ==
    [cols |-> frame.cols, rows |-> Masked(frame.rows, mask, Len(frame.rows))]

\* pd.concat([a, b])
Concat(a, b) ==
    [cols |-> a.cols \cup b.cols, rows |-> a.rows \o b.rows]

\* frame.iloc[positions] (positions are 0-based, as numpy's)
Take(frame, positions) ==
    [cols |-> frame.cols,
     rows |-> [i \in 1..Len(positions) |-> frame.rows[positions[i] + 1]]]

\* frame[c]: a Series, kept as a one-column frame with the same index
Column(frame, c) ==
    [cols |-> {c},
     rows |-> [i \in 1..Len(frame.rows) |->
                 [k \in {"index", c} |-> frame.rows[i][k]]]]

Indexes(frame) == {frame.rows[i]["index"] : i \in 1..Len(frame.rows)}

----------------------------------------------------------------------------
(* split_by_distance *)

\* Rows on the radius counted as beyond it.
split_by_distance_Inclusive(frame, center, radius) ==
    LET withDist == WithColumn(frame, "_distance", haversine_distance(frame, center))
        closer   == [i \in 1..Len(withDist.rows) |-> withDist.rows[i]["_distance"] < radius]
        farther  == [i \in 1..Len(withDist.rows) |-> withDist.rows[i]["_distance"] >= radius]
    IN  [within |-> DropColumns(Filter(withDist, closer), {"_distance"}),
         beyond |-> DropColumns(Filter(withDist, farther), {"_distance"}),
         data   |-> DropColumns(withDist, {"_distance"})]

\* Returns the two frames and the caller's frame object as the call leaves it.
split_by_distance(frame, center, radius) ==
    LET withDist == WithColumn(frame, "_distance", haversine_distance(frame, center))
        closer   == [i \in 1..Len(withDist.rows) |-> withDist.rows[i]["_distance"] < radius]
        farther  == [i \in 1..Len(withDist.rows) |-> withDist.rows[i]["_distance"] > radius]
    IN  [within |-> DropColumns(Filter(withDist, closer), {"_distance"}),
         beyond |-> DropColumns(Filter(withDist, farther), {"_distance"}),
         data   |-> DropColumns(withDist, {"_distance"})]

----------------------------------------------------------------------------
(* train_test_split(frame, random_state=0, test_size=test_size) *)

\* numpy RandomState(0).permutation(n), n = 0..6 (MT19937 seeded with 0,
\* Fisher-Yates from the last position down).
Permutation0 ==
    << << >>,
       <<0>>,
       <<1, 0>>,
       <<2, 1, 0>>,
       <<2, 3, 1, 0>>,
       <<2, 0, 1, 3, 4>>,
       <<5, 2, 1, 3, 0, 4>> >>

\* What random_state=None would draw: it depends on the process-wide source.
ShufflePermutation_Unseeded(n) ==
    [i \in 1..n |-> Permutation0[n + 1][((i - 1 + rng) % n) + 1]]

\* The permutation the call shuffles by: a fresh generator seeded with 0.
ShufflePermutation(n) == Permutation0[n + 1]

\* floor instead of ceil
NumTest_Floor(test_size, n) == (test_size * n) \div 100

\* n_test = ceil(test_size * n_samples); test_size is in hundredths.
NumTest(test_size, n) == (test_size * n + 99) \div 100

\* The shuffle split of the library generation the scripts run on (they are
\* Python 2 code): no check that either part is non-empty; n_train is
\* n_samples - n_test; test rows are the first n_test of the permutation,
\* train rows the rest.  Returned as [train, test].
train_test_split(frame, test_size) ==
    LET n      == Len(frame.rows)
        n_test == NumTest(test_size, n)
        perm   == ShufflePermutation(n)
    IN  [train |-> Take(frame, SubSeq(perm, n_test + 1, n)),
         test  |-> Take(frame, SubSeq(perm, 1, n_test))]

----------------------------------------------------------------------------
(* split *)

\* A split that keeps only the rows beyond the circle for training.
split_NoMerge(frame, center, test_size, max_dist) ==
    LET parts      == split_by_distance(frame, center, max_dist)
        shuffled   == train_test_split(parts.within, test_size)
        data_test  == shuffled.test
        data_train == parts.beyond
    IN  [status  |-> "returned",
         X_train |-> DropColumns(data_train, {"GHF"}),
         y_train |-> Column(data_train, "GHF"),
         X_test  |-> DropColumns(data_test, {"GHF"}),
         y_test  |-> Column(data_test, "GHF"),
         data    |-> parts.data]

\* A split that unpacks the two parts of the shuffle in the other order.
split_Swapped(frame, center, test_size, max_dist) ==
    LET parts      == split_by_distance(frame, center, max_dist)
        shuffled   == train_test_split(parts.within, test_size)
        data_test  == shuffled.train
        data_train == Concat(parts.beyond, shuffled.test)
    IN  [status  |-> "returned",
         X_train |-> DropColumns(data_train, {"GHF"}),
         y_train |-> Column(data_train, "GHF"),
         X_test  |-> DropColumns(data_test, {"GHF"}),
         y_test  |-> Column(data_test, "GHF"),
         data    |-> parts.data]

\* A split that refuses an empty circle.
split_Checked(frame, center, test_size, max_dist) ==
    LET parts      == split_by_distance(frame, center, max_dist)
        shuffled   == train_test_split(parts.within, test_size)
        data_test  == shuffled.test
        data_train == Concat(parts.beyond, shuffled.train)
        empty      == [cols |-> {}, rows |-> << >>]
    IN  IF Len(parts.within.rows) = 0
        THEN [status |-> "raised", X_train |-> empty, y_train |-> empty,
              X_test |-> empty, y_test |-> empty, data |-> parts.data]
        ELSE [status  |-> "returned",
              X_train |-> DropColumns(data_train, {"GHF"}),
              y_train |-> Column(data_train, "GHF"),
              X_test  |-> DropColumns(data_test, {"GHF"}),
              y_test  |-> Column(data_test, "GHF"),
              data    |-> parts.data]

\* status is "returned": no statement of split raises, and neither does the
\* shuffle split it calls.
split(frame, center, test_size, max_dist) ==
    LET parts      == split_by_distance(frame, center, max_dist)
        shuffled   == train_test_split(parts.within, test_size)
        data_test  == shuffled.test
        data_train == Concat(parts.beyond, shuffled.train)
    IN  [status  |-> "returned",
         X_train |-> DropColumns(data_train, {"GHF"}),
         y_train |-> Column(data_train, "GHF"),
         X_test  |-> DropColumns(data_test, {"GHF"}),
         y_test  |-> Column(data_test, "GHF"),
         data    |-> parts.data]

----------------------------------------------------------------------------
(* fill_in_greenland_GHF *)

RECURSIVE ExpTerm(_, _)
\* x^k / k! in thousandths, for x in thousandths
ExpTerm(x, k) == IF k = 0 THEN 1000 ELSE (ExpTerm(x, k - 1) * x) \div (1000 * k)

RECURSIVE ExpSeries(_, _)
ExpSeries(x, k) == IF k = 0 THEN ExpTerm(x, 0) ELSE ExpSeries(x, k - 1) + ExpTerm(x, k)

\* np.exp(x) in thousandths for 0 <= x <= 1 (x in thousandths): its Taylor
\* series to the eighth power.  np.exp(0) is exactly 1.
Exp(x) == ExpSeries(x, 8)

\* amp / np.exp(dist**2. / rad**2.), for dist <= rad; dist is in metres and
\* rad in kilometres.
gauss(amp, dist, rad) ==
    LET km == dist \div 1000
    IN  (amp * 1000) \div Exp((km * km * 1000) \div (rad * rad))

dist_col(point) == "distance_" \o point.core
ghf_col(point)  == "GHF_radial_" \o point.core
dist_cols == {dist_col(GREENLAND[p]) : p \in 1..Len(GREENLAND)}
ghf_cols  == {ghf_col(GREENLAND[p]) : p \in 1..Len(GREENLAND)}

\* An estimate kept up to, but not at, max_ice_core_dist.
GHF_radial_Exclusive(point, dist) ==
    IF dist >= max_ice_core_dist THEN NaN ELSE gauss(point.ghf, dist, point.rad)

\* The Gaussian estimate of one row from one ice core; NaN where the row is
\* farther than max_ice_core_dist.  (The code computes gauss for every row
\* and then overwrites the far ones: the same value.)
GHF_radial(point, dist) ==
    IF dist > max_ice_core_dist THEN NaN ELSE gauss(point.ghf, dist, point.rad)

RECURSIVE AddCores(_, _)
\* The loop over GREENLAND.iterrows(): after p ice cores the frame carries
\* their distance_X and GHF_radial_X columns.
AddCores(frame, p) ==
    IF p = 0 THEN frame
    ELSE LET f     == AddCores(frame, p - 1)
             point == GREENLAND[p]
             dist  == haversine_distance(f, <<point.lon, point.lat>>)
             est   == [i \in 1..Len(f.rows) |-> GHF_radial(point, dist[i])]
         IN  WithColumn(WithColumn(f, dist_col(point), dist), ghf_col(point), est)

RECURSIVE SumOver(_, _)
SumOver(row, cs) ==
    IF cs = {} THEN 0
    ELSE LET c == CHOOSE x \in cs : TRUE IN row[c] + SumOver(row, cs \ {c})

\* mean(skipna=False): missing as soon as one value is missing
RowMean_NoSkip(row, cs) ==
    LET present == {c \in cs : ~IsNaN(row[c])}
    IN  IF present /= cs THEN NaN ELSE SumOver(row, present) \div Cardinality(present)

\* frame[cs].mean(skipna=True, axis=1) of one row
RowMean(row, cs) ==
    LET present == {c \in cs : ~IsNaN(row[c])}
    IN  IF present = {} THEN NaN ELSE SumOver(row, present) \div Cardinality(present)

\* frame.GHF == v
GHFEquals(frame, v) == [i \in 1..Len(frame.rows) |-> frame.rows[i]["GHF"] = v]

\* frame.loc[frame.GHF == v, 'GHF'] = w
ReplaceGHF(frame, v, w) ==
    [frame EXCEPT !.rows =
        [i \in 1..Len(frame.rows) |->
            IF frame.rows[i]["GHF"] = v
            THEN [frame.rows[i] EXCEPT !["GHF"] = w]
            ELSE frame.rows[i]]]

\* frame.dropna(): the rows with no missing value in any column
DropNa(frame) ==
    Filter(frame, [i \in 1..Len(frame.rows) |->
                      \A c \in frame.cols : ~IsNaN(frame.rows[i][c])])

\* The imputation without the line that turns 135.0 into zero.
fill_in_greenland_GHF_NoSentinel(frame) ==
    LET cores    == AddCores(frame, Len(GREENLAND))
        means    == [i \in 1..Len(cores.rows) |-> RowMean(cores.rows[i], ghf_cols \cup {"GHF"})]
        filled   == WithColumn(cores, "GHF", means)
        local    == DropColumns(filled, dist_cols \cup ghf_cols)
        gris_unknown == Filter(local, GHFEquals(local, 0))
    IN  [known   |-> DropNa(ReplaceGHF(local, 0, NaN)),
         unknown |-> gris_unknown,
         data    |-> filled]

\* Returns the pair (data, gris_unknown) and the caller's frame object as the
\* call leaves it: the columns and the GHF assigned before `data` is rebound
\* to the copy data.drop() returns are assigned on the caller's object.
fill_in_greenland_GHF(frame) ==
    LET cores    == AddCores(frame, Len(GREENLAND))
        means    == [i \in 1..Len(cores.rows) |-> RowMean(cores.rows[i], ghf_cols \cup {"GHF"})]
        filled   == WithColumn(cores, "GHF", means)
        local    == DropColumns(filled, dist_cols \cup ghf_cols)
        zeroed   == ReplaceGHF(local, SENTINEL_GHF, 0)
        gris_unknown == Filter(zeroed, GHFEquals(zeroed, 0))
    IN  [known   |-> DropNa(ReplaceGHF(zeroed, 0, NaN)),
         unknown |-> gris_unknown,
         data    |-> filled]

----------------------------------------------------------------------------
(* Inputs *)

BaseCols == {"Longitude_1", "Latitude_1", "crusthk_cr", "GHF"}

\* A loaded dataset: row i carries index label i - 1.
\* r[i] is <<site, GHF, covariate>>.
MkFrame(n, r) ==
    [cols |-> BaseCols,
     rows |-> [i \in 1..n |->
                 [index |-> i - 1,
                  Longitude_1 |-> r[i][1][1], Latitude_1 |-> r[i][1][2],
                  crusthk_cr |-> r[i][3], GHF |-> r[i][2]]]]

P_GRIP  == << -37640, 72580>>
P_DYE3  == << -43820, 65180>>
P_NGRIP == << -42320, 75100>>
P_EDGE  == << -42320, 73750>>   \* 150 km from NGRIP
P_PAST  == << -42320, 73740>>   \* 151 km from NGRIP
P_FAR   == << 0, 0>>
P_OFF   == << -40000, 55006>>   \* a record given to three decimals
P_OFF_R == << -40000, 55010>>   \* P_OFF to two decimals
P_RIM   == << -40000, 44209>>   \* 1199.817 km from P_OFF
P_NEAR  == << -38000, 73000>>   \* whole degrees, 48 km from GRIP

SplitSites == {P_GRIP, P_NGRIP, P_FAR}
Centers    == {P_GRIP, P_FAR}
Radii      == {315017, 3500000}  \* metres; NGRIP is 315.017 km from GRIP
TestSizes  == {30, 90}        \* hundredths: test_size=.3 (default) and .9

SplitDatasets ==
    { MkFrame(n, r) :
        n \in 1..MaxRows, r \in [1..MaxRows -> SplitSites \X {40000} \X {1}] }

FillSites == {P_DYE3, P_NGRIP, P_GRIP, P_EDGE, P_PAST}
GHFValues == {NaN, 0, 40000, SENTINEL_GHF}   \* missing, unmeasured, 40.0, 135.0
CovValues == {NaN, 1}

FillDatasets ==
    { MkFrame(n, r) :
        n \in 1..MaxFillRows,
        r \in [1..MaxFillRows -> FillSites \X GHFValues \X CovValues] }

NoCall == [op |-> "none", data |-> << >>, center |-> << >>, radius |-> 0, test_size |-> 0]

----------------------------------------------------------------------------
(* The operations *)

\* memo once something else has run after the remembered call
Followed(m) ==
    IF m /= << >> /\ m[1].stage = "first"
    THEN << [m[1] EXCEPT !.stage = "followed"] >>
    ELSE m

\* No script is running.
Idle ==
    /\ pc = "idle"
    /\ centers = << >>
    /\ loop = << >>
    /\ r2s = << >>
    /\ rmses = << >>
    /\ radius_error = << >>
    /\ radii_errors = << >>
    /\ y0 = << >>
    /\ stderr = << >>
    /\ plotted = << >>
    /\ err = "none"
    /\ names = {}

Init ==
    /\ data \in SplitDatasets
    /\ call = NoCall
    /\ ret = [status |-> "none"]
    /\ memo = << >>
    /\ rng = 0
    /\ Idle

\* within, beyond = split_by_distance(data, center, radius)
SplitByDistance ==
    \E center \in Centers, radius \in Radii :
        LET r == split_by_distance(data, center, radius)
        IN  /\ call' = [op |-> "split_by_distance", data |-> data, center |-> center,
                        radius |-> radius, test_size |-> 0]
            /\ ret' = [status |-> "returned", within |-> r.within, beyond |-> r.beyond]
            /\ data' = r.data
            /\ memo' = Followed(memo)
            /\ UNCHANGED <<rng, sweepvars>>

\* X_train, y_train, X_test, y_test = split(data, center, test_size, max_dist)
Split ==
    \E center \in Centers, max_dist \in Radii, test_size \in TestSizes :
        LET r == split(data, center, test_size, max_dist)
            c == [op |-> "split", data |-> data, center |-> center,
                  radius |-> max_dist, test_size |-> test_size]
            out == [status |-> r.status, X_train |-> r.X_train, y_train |-> r.y_train,
                    X_test |-> r.X_test, y_test |-> r.y_test]
        IN  /\ call' = c
            /\ ret' = out
            /\ data' = r.data
            /\ memo' = IF memo = << >>
                          THEN << [call |-> c, ret |-> out, stage |-> "first"] >>
                        ELSE IF memo[1].call = c /\ memo[1].stage = "followed"
                          THEN << [memo[1] EXCEPT !.stage = "repeated"] >>
                        ELSE Followed(memo)
            /\ UNCHANGED <<rng, sweepvars>>

\* Any other code drawing from the process-wide random source.
AdvanceRng ==
    /\ rng' = (rng + 1) % RngStates
    /\ memo' = Followed(memo)
    /\ UNCHANGED <<data, call, ret, sweepvars>>

Next == SplitByDistance \/ Split \/ AdvanceRng

Spec == Init /\ [][Next]_vars

\* The Greenland imputation on a freshly loaded dataset.
InitFill ==
    /\ data \in FillDatasets
    /\ call = NoCall
    /\ ret = [status |-> "none"]
    /\ memo = << >>
    /\ rng = 0
    /\ Idle

\* gris_known, gris_unknown = fill_in_greenland_GHF(data)
FillInGreenlandGHF ==
    /\ call.op = "none"
    /\ LET r == fill_in_greenland_GHF(data)
       IN  /\ call' = [op |-> "fill_in_greenland_GHF", data |-> data, center |-> << >>,
                       radius |-> 0, test_size |-> 0]
           /\ ret' = [status |-> "returned", known |-> r.known, unknown |-> r.unknown]
           /\ data' = r.data
    /\ UNCHANGED <<memo, rng, sweepvars>>

NextFill == FillInGreenlandGHF

SpecFill == InitFill /\ [][NextFill]_vars

----------------------------------------------------------------------------
(* The regressor and the error measures *)

Abs(x) == IF x < 0 THEN -x ELSE x

RECURSIVE SumSeq(_, _)
\* sum of the first n entries
SumSeq(s, n) == IF n = 0 THEN 0 ELSE SumSeq(s, n - 1) + s[n]

\* np.mean of a non-empty vector (rounded down)
Mean(s) == SumSeq(s, Len(s)) \div Len(s)

RECURSIVE SqrtBetween(_, _, _)
\* the largest r in lo..hi with r * r <= x
SqrtBetween(x, lo, hi) ==
    IF lo = hi THEN lo
    ELSE LET mid == (lo + hi + 1) \div 2
         IN  IF mid * mid <= x THEN SqrtBetween(x, mid, hi)
                               ELSE SqrtBetween(x, lo, mid - 1)

\* sqrt, rounded down
Sqrt(x) == SqrtBetween(x, 0, 40000)

\* The values of a Series, in row order.
Values(series, c) == [i \in 1..Len(series.rows) |-> series.rows[i][c]]

\* reg = GradientBoostingRegressor(**GDR_PARAMS); reg.fit(X_train, y_train).
\* The fit raises ValueError on a training set without rows.  The model
\* starts from the mean of the training targets ('init': None with loss
\* 'ls'); every split of every tree looks at a random 30% of the features
\* ('max_features': 0.3), drawn from the process-wide source because
\* 'random_state' is None: seed is where that source stands at the fit.
train_regressor(X_train, y_train, seed) ==
    IF Len(X_train.rows) = 0
    THEN [status |-> "ValueError"]
    ELSE [status |-> "fitted", init |-> Mean(y_train), seed |-> seed]

\* reg.predict(X_test): the initial mean plus the sum of the trees, which
\* differs between fits that drew different features.
predict(reg, X_test) ==
    [i \in 1..Len(X_test.rows) |->
        reg.init + 1000 * reg.seed * X_test.rows[i]["crusthk_cr"]]

\* The differences of two vectors in tenths of mW/m^2.
Tenths(a, b) == [i \in 1..Len(a) |-> (a[i] - b[i]) \div 100]

\* mean_squared_error(y_true, y_pred), in squared tenths
mean_squared_error(y_true, y_pred) ==
    LET d == Tenths(y_true, y_pred)
    IN  SumSeq([i \in 1..Len(d) |-> d[i] * d[i]], Len(d)) \div Len(d)

\* The coefficient of determination in thousandths: 1 - SS_res / SS_tot, and
\* for a constant y_true 1 if the prediction is exact, else 0.
r2_score(y_true, y_pred) ==
    LET d      == Tenths(y_true, y_pred)
        m      == Mean(y_true)
        c      == [i \in 1..Len(y_true) |-> (y_true[i] - m) \div 100]
        ss_res == SumSeq([i \in 1..Len(d) |-> d[i] * d[i]], Len(d))
        ss_tot == SumSeq([i \in 1..Len(c) |-> c[i] * c[i]], Len(c))
    IN  IF ss_tot = 0 THEN (IF ss_res = 0 THEN 1000 ELSE 0)
        ELSE 1000 - (1000 * ss_res) \div ss_tot

\* r2, rmse = error_summary(y_test, y_pred); rmse in tenths of mW/m^2
error_summary(y_test, y_pred) ==
    [r2   |-> r2_score(y_test, y_pred),
     rmse |-> Sqrt(mean_squared_error(y_test, y_pred))]

\* X.drop(['Latitude_1', 'Longitude_1'], axis=1)
Features(X) == DropColumns(X, {"Latitude_1", "Longitude_1"})

\* eval_prediction after its call of split, which returned s.
Evaluated(s, seed) ==
    LET reg == train_regressor(Features(s.X_train), Values(s.y_train, "GHF"), seed)
    IN  IF Len(s.X_test.rows) = 0
        THEN [status |-> "AssertionError", data |-> s.data]
        ELSE IF reg.status /= "fitted"
        THEN [status |-> reg.status, data |-> s.data]
        ELSE LET y_pred == predict(reg, Features(s.X_test))
                 e      == error_summary(Values(s.y_test, "GHF"), y_pred)
             IN  [status |-> "returned", r2 |-> e.r2, rmse |-> e.rmse,
                  data |-> s.data]

\* eval_prediction(data, t, radius, center) with the random source at seed:
\* the pair of error measures, or the exception that ends it.
eval_prediction(frame, t, radius, center, seed) ==
    Evaluated(split(frame, center, t, radius), seed)
----------------------------------------------------------------------------
(* error_analysis.py: sampling of the prediction centers *)

\* round(x, 2) of a coordinate in thousandths of a degree: the nearest
\* hundredth, a half away from zero.
round2(x) ==
    LET q == ((Abs(x) + 5) \div 10) * 10
    IN  IF x < 0 THEN -q ELSE q

\* min_points of random_prediction_ctr (100 in the code), scaled to the
\* datasets of the model.
min_points == 2

\* cands = data.loc[(Latitude_1 > 45) & (Longitude_1 > -100) & (Longitude_1 < 50)]
cands(frame) ==
    Filter(frame,
           [i \in 1..Len(frame.rows) |->
               /\ frame.rows[i]["Latitude_1"] > 45000
               /\ frame.rows[i]["Longitude_1"] > -100000
               /\ frame.rows[i]["Longitude_1"] < 50000])

\* One round of the `while True` loop of random_prediction_ctr, with
\* cands.sample(n=1) drawing the k-th candidate: whether the round returns,
\* and what it returns.
random_prediction_ctr(frame, radius, k) ==
    LET c      == cands(frame).rows[k]
        center == <<c["Longitude_1"], c["Latitude_1"]>>
        parts  == split_by_distance(frame, center, radius)
    IN  [accepted |-> Len(parts.within.rows) >= min_points,
         sampled  |-> center,
         center   |-> <<round2(center[1]), round2(center[2])>>,
         data     |-> parts.data]

RECURSIVE MinOf(_, _)
\* min of the first n entries
MinOf(s, n) ==
    IF n = 1 THEN s[1]
    ELSE LET m == MinOf(s, n - 1) IN IF s[n] < m THEN s[n] ELSE m

----------------------------------------------------------------------------
(* error_analysis.py: the two sweeps *)

ncenters == 2                     \* centers per sweep (10 in the script)
performance_ts == <<30, 90>>      \* of np.arange(.1, 1, .05), in hundredths
performance_radii == <<1200000, 2200000>>  \* of np.arange(1200, 2701, 500)
sensitivity_radius == 1700000     \* radius = 1700
sensitivity_t == 90               \* t = .9
\* noise_amps in hundredths: the first two of np.arange(0.02, .25, .02), and
\* a sweep that starts at amplitude 0
NoiseAmps == {<<2, 4>>, <<0, 2>>}

\* np.zeros((n, m))
Zeros(n, m) == [k \in 1..n |-> [j \in 1..m |-> 0]]

\* The column sums instead of the column means.
AxisMean_Sum(a, m) == [j \in 1..m |-> SumSeq([k \in 1..Len(a) |-> a[k][j]], Len(a))]

\* a.mean(axis=0) of an array with m columns
AxisMean(a, m) == [j \in 1..m |-> Mean([k \in 1..Len(a) |-> a[k][j]])]

\* a[k][j] = v
SetAt(a, k, j, v) == [a EXCEPT ![k] = [a[k] EXCEPT ![j] = v]]

\* Standard normal draws in thousandths; np.random.randn(n) with the source
\* at seed yields n of them.
NormalDraws == <<1764, 400, 979, 2241, 1868, -977>>
randn(n, seed) ==
    [i \in 1..n |-> NormalDraws[((seed + i - 1) % Len(NormalDraws)) + 1]]

\* _predict(X_train, y_train, X_test, center, noise_amp) with the random
\* source at seed: noise = mean(y_train) * noise_amp * sqrt(pi / 2) * randn,
\* a regressor trained on y_train + noise, and its prediction for X_test.
\* The draw of randn moves the source before the fit reads it.
_predict(X_train, y_train, X_test, noise_amp, seed) ==
    LET n     == Len(y_train)
        scale == ((((Mean(y_train) * noise_amp) \div 100) * 1253) \div 1000)
        z     == randn(n, seed)
        noisy == [i \in 1..n |-> y_train[i] + (scale * z[i]) \div 1000]
        reg   == train_regressor(Features(X_train),
                                 IF n = 0 THEN y_train ELSE noisy,
                                 (seed + 1) % RngStates)
    IN  IF reg.status /= "fitted" THEN [status |-> reg.status]
        ELSE IF Len(X_test.rows) = 0 THEN [status |-> "ValueError"]
        ELSE [status |-> "returned", y |-> predict(reg, Features(X_test))]

\* sqrt(mean_squared_error(y0, y_pred)) / np.mean(y0), in thousandths
normalized_rmse(ref, y_pred) ==
    (Sqrt(mean_squared_error(ref, y_pred)) * 100000) \div Mean(ref)

\* The exception leaves the script.
Abort(e) ==
    /\ pc' = "aborted"
    /\ err' = e

\* data after the script's own cleaning: no missing value, no GHF of 0 or
\* 135.  Row i has GHF 40 + 5 (i - 1).
SweepSites == {P_GRIP, P_NGRIP, P_OFF, P_RIM}
SweepDatasets ==
    UNION { { MkFrame(n, [i \in 1..n |-> <<sites[i], 40000 + 5000 * (i - 1), 1>>]) :
                sites \in [1..n -> SweepSites] } : n \in 1..MaxSweepRows }

PerformanceCall ==
    [op |-> "plot_performance_analysis", test_ratios |-> performance_ts,
     radii |-> performance_radii, ncenters |-> ncenters]

\* error_analysis.py up to the call of plot_performance_analysis
InitAnalysis ==
    /\ data \in SweepDatasets
    /\ call = PerformanceCall
    /\ ret = [status |-> "none"]
    /\ memo = << >>
    /\ rng = 0
    /\ pc = "performance_centers"
    /\ centers = << >>
    /\ loop = << >>
    /\ r2s = << >>
    /\ rmses = << >>
    /\ radius_error = << >>
    /\ radii_errors = << >>
    /\ y0 = << >>
    /\ stderr = << >>
    /\ plotted = << >>
    /\ err = "none"
    /\ names = {}

\* One round of random_prediction_ctr(data, min(radii)) inside
\* centers = [... for _ in range(ncenters)]; after the last center the loops
\* of plot_performance_analysis start.
PerformanceCenter ==
    /\ pc = "performance_centers"
    /\ rng' = (rng + 1) % RngStates
    /\ IF Len(cands(data).rows) = 0
       THEN /\ Abort("ValueError")
            /\ UNCHANGED <<data, centers, loop, r2s, rmses>>
       ELSE \E k \in 1..Len(cands(data).rows) :
              LET r  == random_prediction_ctr(data, MinOf(call.radii, Len(call.radii)), k)
                  cs == IF r.accepted THEN Append(centers, r.center) ELSE centers
              IN  /\ data' = r.data
                  /\ centers' = cs
                  /\ IF Len(cs) = call.ncenters
                     THEN /\ pc' = "performance_loop"
                          /\ loop' = [radius |-> 1, t |-> 1, ctr |-> 1]
                          /\ r2s' = Zeros(call.ncenters, Len(call.test_ratios))
                          /\ rmses' = Zeros(call.ncenters, Len(call.test_ratios))
                     ELSE UNCHANGED <<pc, loop, r2s, rmses>>
                  /\ UNCHANGED err
    /\ UNCHANGED <<call, ret, memo, radius_error, radii_errors, y0, stderr, plotted, names>>

SensitivityCall(noise_amps) ==
    [op |-> "plot_sensitivity_analysis", t |-> sensitivity_t,
     radius |-> sensitivity_radius, noise_amps |-> noise_amps,
     ncenters |-> ncenters]

\* What plot_performance_analysis does with the outcome e of one call of
\* eval_prediction: an exception leaves the function; else the two arrays
\* take the measures and the loops move on.
RecordEvaluation(e) ==
       LET lngth == Len(call.test_ratios)
       IN  /\ data' = e.data
           /\ stderr' = Append(stderr,
                  [what |-> "performance", t |-> call.test_ratios[loop.t],
                   radius |-> call.radii[loop.radius], center |-> centers[loop.ctr],
                   status |-> e.status,
                   r2   |-> IF e.status = "returned" THEN e.r2 ELSE NaN,
                   rmse |-> IF e.status = "returned" THEN e.rmse ELSE NaN])
           /\ IF e.status /= "returned"
              THEN /\ Abort(e.status)
                   /\ UNCHANGED <<call, centers, loop, r2s, rmses, radius_error, radii_errors>>
              ELSE LET rmses1 == SetAt(rmses, loop.ctr, loop.t, e.rmse)
                       r2s1   == SetAt(r2s, loop.ctr, loop.t, e.r2)
                       hstack == [j \in 1..lngth |->
                                    << call.test_ratios[j],
                                       AxisMean(r2s1, lngth)[j],
                                       AxisMean(rmses1, lngth)[j] >>]
                   IN  /\ UNCHANGED err
                       /\ IF loop.ctr < call.ncenters
                          THEN /\ loop' = [loop EXCEPT !.ctr = loop.ctr + 1]
                               /\ r2s' = r2s1
                               /\ rmses' = rmses1
                               /\ UNCHANGED <<pc, call, centers, radius_error, radii_errors>>
                          ELSE IF loop.t < lngth
                          THEN /\ loop' = [loop EXCEPT !.ctr = 1, !.t = loop.t + 1]
                               /\ r2s' = r2s1
                               /\ rmses' = rmses1
                               /\ radius_error' = hstack
                               /\ UNCHANGED <<pc, call, centers, radii_errors>>
                          ELSE IF loop.radius < Len(call.radii)
                          THEN /\ loop' = [radius |-> loop.radius + 1, t |-> 1, ctr |-> 1]
                               /\ r2s' = Zeros(call.ncenters, lngth)
                               /\ rmses' = Zeros(call.ncenters, lngth)
                               /\ radius_error' = hstack
                               /\ radii_errors' = radii_errors \o hstack
                               /\ UNCHANGED <<pc, call, centers>>
                          ELSE /\ radius_error' = hstack
                               /\ radii_errors' = radii_errors \o hstack
                               /\ r2s' = r2s1
                               /\ rmses' = rmses1
                               /\ pc' = "sensitivity_centers"
                               /\ centers' = << >>
                               /\ loop' = << >>
                               /\ \E noise_amps \in NoiseAmps :
                                      call' = SensitivityCall(noise_amps)

\* The body of the innermost loop of plot_performance_analysis, with what
\* follows it when the center loop, the test-ratio loop and the radius loop
\* end; after the last radius the script goes on to
\* plot_sensitivity_analysis.
EvalPrediction ==
    /\ pc = "performance_loop"
    /\ rng' = (rng + 1) % RngStates
    /\ RecordEvaluation(eval_prediction(data, call.test_ratios[loop.t],
                                        call.radii[loop.radius], centers[loop.ctr], rng))
    /\ UNCHANGED <<ret, memo, y0, plotted, names>>

\* One round of random_prediction_ctr(data, radius) inside the list of
\* centers of plot_sensitivity_analysis.
SensitivityCenter ==
    /\ pc = "sensitivity_centers"
    /\ rng' = (rng + 1) % RngStates
    /\ IF Len(cands(data).rows) = 0
       THEN /\ Abort("ValueError")
            /\ UNCHANGED <<data, centers, loop, rmses>>
       ELSE \E k \in 1..Len(cands(data).rows) :
              LET r  == random_prediction_ctr(data, call.radius, k)
                  cs == IF r.accepted THEN Append(centers, r.center) ELSE centers
              IN  /\ data' = r.data
                  /\ centers' = cs
                  /\ IF Len(cs) = call.ncenters
                     THEN /\ pc' = "sensitivity_loop"
                          /\ loop' = [ctr |-> 1, noise |-> 0]
                          /\ rmses' = Zeros(call.ncenters, Len(call.noise_amps))
                     ELSE UNCHANGED <<pc, loop, rmses>>
                  /\ UNCHANGED err
    /\ UNCHANGED <<call, ret, memo, r2s, radius_error, radii_errors, y0, stderr, plotted, names>>

\* _predict on the outcome s of split
PredictOn(s, noise_amp, seed) ==
    _predict(s.X_train, Values(s.y_train, "GHF"), s.X_test, noise_amp, seed)

\* y0 = p, unless p is an exception
RecordReference(p) ==
    IF p.status /= "returned"
    THEN /\ Abort(p.status)
         /\ UNCHANGED <<loop, y0>>
    ELSE /\ y0' = p.y
         /\ loop' = [loop EXCEPT !.noise = 1]
         /\ UNCHANGED <<pc, err>>

\* The start of the center loop's body: the split of the data around the
\* center and y0 = _predict(X_train, y_train, X_test, center, 0).
SensitivityReference ==
    /\ pc = "sensitivity_loop"
    /\ loop.noise = 0
    /\ data' = split(data, centers[loop.ctr], call.t, call.radius).data
    /\ rng' = (rng + 1) % RngStates
    /\ stderr' = Append(stderr, [what |-> "reference", noise_amp |-> 0,
                                  center |-> centers[loop.ctr]])
    /\ RecordReference(PredictOn(split(data, centers[loop.ctr], call.t, call.radius), 0, rng))
    /\ UNCHANGED <<call, ret, memo, centers, r2s, rmses, radius_error, radii_errors, plotted, names>>

\* rmses[idx_ctr][idx_noise] = rmse for the prediction p, unless p is an
\* exception; then the loops move on.
RecordNoise(p) ==
           /\ stderr' = Append(stderr,
                  [what |-> "noise", noise_amp |-> call.noise_amps[loop.noise],
                   center |-> centers[loop.ctr], status |-> p.status,
                   rmse |-> IF p.status = "returned" THEN normalized_rmse(y0, p.y)
                                                     ELSE NaN])
           /\ IF p.status /= "returned"
              THEN /\ Abort(p.status)
                   /\ UNCHANGED <<loop, rmses, plotted>>
              ELSE LET rmses1 == SetAt(rmses, loop.ctr, loop.noise, normalized_rmse(y0, p.y))
                   IN  /\ rmses' = rmses1
                       /\ UNCHANGED err
                       /\ IF loop.noise < Len(call.noise_amps)
                          THEN /\ loop' = [loop EXCEPT !.noise = loop.noise + 1]
                               /\ UNCHANGED <<pc, plotted>>
                          ELSE IF loop.ctr < call.ncenters
                          THEN /\ loop' = [ctr |-> loop.ctr + 1, noise |-> 0]
                               /\ UNCHANGED <<pc, plotted>>
                          ELSE /\ plotted' = AxisMean(rmses1, Len(call.noise_amps))
                               /\ pc' = "done"
                               /\ UNCHANGED loop

\* The body of the loop over noise_amps, with what follows it when that
\* loop and the center loop end: the mean line of the plot.
SensitivityNoise ==
    /\ pc = "sensitivity_loop"
    /\ loop.noise > 0
    /\ rng' = (rng + 1) % RngStates
    /\ RecordNoise(PredictOn(split(data, centers[loop.ctr], call.t, call.radius),
                             call.noise_amps[loop.noise], rng))
    /\ UNCHANGED <<data, call, ret, memo, centers, r2s, radius_error, radii_errors, y0, names>>

NextAnalysis ==
    \/ PerformanceCenter
    \/ EvalPrediction
    \/ SensitivityCenter
    \/ SensitivityReference
    \/ SensitivityNoise

SpecAnalysis == InitAnalysis /\ [][NextAnalysis]_vars

----------------------------------------------------------------------------
(* average_rmse under plot_average_rmse_fixed_max_dist *)

AverageSites == {P_GRIP, P_NGRIP, P_FAR}
AverageDatasets ==
    UNION { { MkFrame(n, [i \in 1..n |-> <<sites[i], 40000 + 5000 * (i - 1), 1>>]) :
                sites \in [1..n -> AverageSites] } : n \in 1..MaxSweepRows }

\* center = (randint(-180, 180), randint(-90, 90)): whole degrees
RandomCenters == {P_NEAR, P_FAR}
average_test_sizes == <<30, 90>>  \* of [.05 * i for i in range(1, 20)]
average_max_dist == 3500000       \* max_dist = 3500

AverageCall(n) ==
    [op |-> "plot_average_rmse_fixed_max_dist", test_sizes |-> average_test_sizes,
     max_dist |-> average_max_dist, ncenters |-> n]

\* plot_average_rmse_fixed_max_dist(data, test_sizes, max_dist, ncenters)
\* at its first call of average_rmse
InitAverage ==
    /\ data \in AverageDatasets
    /\ \E n \in 1..ncenters : call = AverageCall(n)
    /\ ret = [status |-> "none"]
    /\ memo = << >>
    /\ rng = 0
    /\ pc = "average_rmse"
    /\ centers = << >>
    /\ loop = [size |-> 1, ctr |-> 1]
    /\ r2s = << >>
    /\ rmses = << >>
    /\ radius_error = << >>
    /\ radii_errors = << >>
    /\ y0 = << >>
    /\ stderr = << >>
    /\ plotted = << >>
    /\ err = "none"
    /\ names = {}

\* The body of the loop of average_rmse after its call of split, which
\* returned s: skipped without test points, else the RMSE of a regressor
\* trained with the random source at seed, or the exception of the fit.
RmseOf(s, seed) ==
    IF Len(s.X_test.rows) = 0 THEN [status |-> "skipped"]
    ELSE LET reg == train_regressor(Features(s.X_train), Values(s.y_train, "GHF"), seed)
         IN  IF reg.status /= "fitted" THEN [status |-> reg.status]
             ELSE [status |-> "returned",
                   rmse |-> Sqrt(mean_squared_error(Values(s.y_test, "GHF"),
                                                    predict(reg, Features(s.X_test))))]

\* What average_rmse and its caller do with the outcome o of one pass: the
\* list takes the RMSE; after the last pass average_rmse returns
\* sum(rmses) / len(rmses), which the caller appends to avg_rmses before it
\* calls average_rmse for the next test size.
RecordRmse(center, o) ==
    LET rmses1 == IF o.status = "returned" THEN Append(rmses, o.rmse) ELSE rmses
    IN  /\ stderr' = Append(stderr,
               [what |-> "average_rmse", test_size |-> call.test_sizes[loop.size],
                center |-> center, status |-> o.status,
                rmse |-> IF o.status = "returned" THEN o.rmse ELSE NaN])
        /\ rng' = IF o.status = "skipped" THEN rng ELSE (rng + 1) % RngStates
        /\ IF o.status \notin {"returned", "skipped"}
           THEN /\ Abort(o.status)
                /\ UNCHANGED <<loop, rmses, plotted>>
           ELSE IF loop.ctr < call.ncenters
           THEN /\ loop' = [loop EXCEPT !.ctr = loop.ctr + 1]
                /\ rmses' = rmses1
                /\ UNCHANGED <<pc, err, plotted>>
           ELSE IF Len(rmses1) = 0
           THEN /\ Abort("ZeroDivisionError")
                /\ UNCHANGED <<loop, rmses, plotted>>
           ELSE /\ plotted' = Append(plotted, SumSeq(rmses1, Len(rmses1)) \div Len(rmses1))
                /\ UNCHANGED err
                /\ IF loop.size < Len(call.test_sizes)
                   THEN /\ loop' = [size |-> loop.size + 1, ctr |-> 1]
                        /\ rmses' = << >>
                        /\ UNCHANGED pc
                   ELSE /\ pc' = "done"
                        /\ rmses' = rmses1
                        /\ UNCHANGED loop

\* One pass of the loop of average_rmse around a random center.
AverageRmseCenter ==
    /\ pc = "average_rmse"
    /\ \E center \in RandomCenters :
          /\ data' = split(data, center, call.test_sizes[loop.size], call.max_dist).data
          /\ RecordRmse(center,
                        RmseOf(split(data, center, call.test_sizes[loop.size], call.max_dist),
                               rng))
    /\ UNCHANGED <<call, ret, memo, centers, r2s, radius_error, radii_errors, y0, names>>

NextAverage == AverageRmseCenter

SpecAverage == InitAverage /\ [][NextAverage]_vars

----------------------------------------------------------------------------
(* The Greenland workflow at module level (lines 327-335) *)

\* After data = load_global_gris_data().
InitWorkflow ==
    /\ data \in FillDatasets
    /\ call = NoCall
    /\ ret = [status |-> "none"]
    /\ memo = << >>
    /\ rng = 0
    /\ pc = "fill_in_greenland_GHF"
    /\ centers = << >>
    /\ loop = << >>
    /\ r2s = << >>
    /\ rmses = << >>
    /\ radius_error = << >>
    /\ radii_errors = << >>
    /\ y0 = << >>
    /\ stderr = << >>
    /\ plotted = << >>
    /\ err = "none"
    /\ names = {"GREENLAND", "data"}

\* gris_known, gris_unknown = fill_in_greenland_GHF(data)
WorkflowFill ==
    /\ pc = "fill_in_greenland_GHF"
    /\ LET r == fill_in_greenland_GHF(data)
       IN  /\ call' = [op |-> "fill_in_greenland_GHF", data |-> data, center |-> << >>,
                       radius |-> 0, test_size |-> 0]
           /\ ret' = [status |-> "returned", known |-> r.known, unknown |-> r.unknown]
           /\ data' = r.data
    /\ names' = names \cup {"gris_known", "gris_unknown"}
    /\ pc' = "split"
    /\ UNCHANGED <<memo, rng, centers, loop, r2s, rmses, radius_error, radii_errors,
                   y0, stderr, plotted, err>>

\* X_train, y_train, X_test, y_test = split(gris_known, center): the
\* arguments are evaluated first, and a name that is not bound raises
\* NameError.  The two statements after it, which bind center to the
\* coordinates of GRIP, run only if this one returns.
WorkflowSplit ==
    /\ pc = "split"
    /\ IF "center" \notin names
       THEN /\ Abort("NameError")
            /\ UNCHANGED <<call, ret, names>>
       ELSE /\ call' = [op |-> "split", data |-> ret.known, center |-> P_GRIP,
                        radius |-> 3500000, test_size |-> 30]
            /\ ret' = split(ret.known, P_GRIP, 30, 3500000)
            /\ names' = names \cup {"X_train", "y_train", "X_test", "y_test"}
            /\ pc' = "center"
            /\ UNCHANGED err
    /\ UNCHANGED <<data, memo, rng, centers, loop, r2s, rmses, radius_error,
                   radii_errors, y0, stderr, plotted>>

NextWorkflow == WorkflowFill \/ WorkflowSplit

SpecWorkflow == InitWorkflow /\ [][NextWorkflow]_vars

----------------------------------------------------------------------------
(* What the claims speak of, read off the latest call *)

RowNums(c) == 1..Len(c.data.rows)
DistanceOf(c, i) == haversine(c.data.rows[i], c.center)
WithinIdx(c) == {c.data.rows[i]["index"] : i \in {j \in RowNums(c) : DistanceOf(c, j) < c.radius}}
BeyondIdx(c) == {c.data.rows[i]["index"] : i \in {j \in RowNums(c) : DistanceOf(c, j) > c.radius}}
OnRadiusIdx(c) == {c.data.rows[i]["index"] : i \in {j \in RowNums(c) : DistanceOf(c, j) = c.radius}}

\* Every row of part is a row of whole, unchanged but for the dropped columns,
\* and no row occurs twice.
RowsOf(part, whole, cs) ==
    /\ \A i \in 1..Len(part.rows) :
         \E j \in 1..Len(whole.rows) :
            /\ DOMAIN part.rows[i] = cs \cup {"index"}
            /\ \A k \in DOMAIN part.rows[i] : part.rows[i][k] = whole.rows[j][k]
    /\ Cardinality(Indexes(part)) = Len(part.rows)

C2_SplitTrainTest ==
    (call.op = "split" /\ ret.status = "returned") =>
        /\ Indexes(ret.X_test) \subseteq WithinIdx(call)
        /\ Indexes(ret.X_train) = BeyondIdx(call) \cup (WithinIdx(call) \ Indexes(ret.X_test))
        /\ Indexes(ret.X_train) \cap Indexes(ret.X_test) = {}
        /\ RowsOf(ret.X_test, call.data, BaseCols \ {"GHF"})
        /\ RowsOf(ret.X_train, call.data, BaseCols \ {"GHF"})
        /\ RowsOf(ret.y_test, call.data, {"GHF"})
        /\ RowsOf(ret.y_train, call.data, {"GHF"})
        /\ Indexes(ret.y_test) = Indexes(ret.X_test)
        /\ Indexes(ret.y_train) = Indexes(ret.X_train)
        /\ Len(ret.X_test.rows) + Len(ret.X_train.rows)
             = Cardinality(WithinIdx(call)) + Cardinality(BeyondIdx(call))

\* A split whose circle feeds both the test set and the training set, with
\* rows beyond the circle too.
C2_Witness ==
    /\ call.op = "split"
    /\ ret.status = "returned"
    /\ Indexes(ret.X_test) /= {}
    /\ WithinIdx(call) \ Indexes(ret.X_test) /= {}
    /\ BeyondIdx(call) /= {}

\* C3: the number of test rows differs from test_size * len(within) by less
\* than 1, so the test set is non-empty whenever a row lies within the radius
\* (test_size is in (0,1), here in hundredths).
C3_TestSizeWithinRounding ==
    (call.op = "split" /\ ret.status = "returned") =>
        LET n_within == Cardinality(WithinIdx(call))
            n_test   == Len(ret.X_test.rows)
        IN  /\ 100 * n_test - call.test_size * n_within < 100
            /\ call.test_size * n_within - 100 * n_test < 100
            /\ n_within >= 1 => n_test >= 1

\* A split where test_size * len(within) is not a whole number.
C3_Witness ==
    /\ call.op = "split"
    /\ ret.status = "returned"
    /\ Cardinality(WithinIdx(call)) >= 2
    /\ (call.test_size * Cardinality(WithinIdx(call))) % 100 /= 0

C5_SplitDeterministic ==
    (call.op = "split" /\ memo /= << >>) =>
        (memo[1].call = call => ret = memo[1].ret)

\* The remembered call repeated after other operations ran and the
\* process-wide random source moved on, on a circle the shuffle divides.
C5_Witness ==
    /\ call.op = "split"
    /\ memo /= << >>
    /\ memo[1].stage = "repeated"
    /\ memo[1].call = call
    /\ rng /= 0
    /\ Indexes(ret.X_test) /= {}
    /\ WithinIdx(call) \ Indexes(ret.X_test) /= {}

\* C6 as claimed: after split_by_distance, split or fill_in_greenland_GHF
\* returns, the caller's dataset has the rows, columns and values it had
\* when it was passed in.
C6_CallerDataUnchanged ==
    call.op /= "none" => data = call.data

----------------------------------------------------------------------------
(* fill_in_greenland_GHF: what the claims speak of *)

Filled == call.op = "fill_in_greenland_GHF"
Cores == 1..Len(GREENLAND)
Anchor(p) == <<GREENLAND[p].lon, GREENLAND[p].lat>>

\* The row of frame with index label x, as a set (empty when absent)
RowsAt(frame, x) == {i \in 1..Len(frame.rows) : frame.rows[i]["index"] = x}
Has(frame, x) == RowsAt(frame, x) /= {}
Covariates == BaseCols \ {"GHF"}
CovariatesComplete(row) == \A c \in Covariates : ~IsNaN(row[c])

\* Row i as passed in has no target and only ice core p within reach, at
\* distance 0.
OnlySource(i, p) ==
    LET o == call.data.rows[i]
    IN  /\ haversine(o, Anchor(p)) = 0
        /\ IsNaN(o["GHF"])
        /\ \A q \in Cores \ {p} : haversine(o, Anchor(q)) > max_ice_core_dist

InKnownWith(x, v) == \E k \in RowsAt(ret.known, x) : ret.known.rows[k]["GHF"] = v
InUnknownWith(x, v) == \E k \in RowsAt(ret.unknown, x) : ret.unknown.rows[k]["GHF"] = v

\* C7 as claimed: a record at distance 0 from an anchor, with no other
\* target source, gets the anchor's known value as its target and is part of
\* the known dataset.
C7_AnchorValueAtAnchor ==
    Filled =>
        \A i \in RowNums(call), p \in Cores :
            OnlySource(i, p) => InKnownWith(call.data.rows[i]["index"], GREENLAND[p].ghf)

\* C7 as amended: that holds for the anchors whose known value is not the
\* sentinel 135.0 and the records with no missing covariate; at an anchor
\* whose known value is 135.0 (NGRIP) the record is imputed 135.0, which is
\* then forced to zero: it is in the unknown dataset and not in the known one.
C7_AnchorValueUnlessSentinel ==
    Filled =>
        \A i \in RowNums(call), p \in Cores :
            LET o == call.data.rows[i] IN
            OnlySource(i, p) =>
                /\ data.rows[i]["GHF"] = GREENLAND[p].ghf
                /\ (GREENLAND[p].ghf /= SENTINEL_GHF /\ CovariatesComplete(o))
                      => InKnownWith(o["index"], GREENLAND[p].ghf)
                /\ GREENLAND[p].ghf = SENTINEL_GHF
                      => (InUnknownWith(o["index"], 0) /\ ~Has(ret.known, o["index"]))

\* A record on the DYE3 core with no target of its own, returned as known,
\* beside a record on the NGRIP core returned as unknown.
C7_Witness ==
    /\ Filled
    /\ \E i \in RowNums(call), p \in Cores :
          /\ OnlySource(i, p)
          /\ GREENLAND[p].ghf /= SENTINEL_GHF
          /\ InKnownWith(call.data.rows[i]["index"], GREENLAND[p].ghf)
    /\ \E i \in RowNums(call), p \in Cores :
          /\ OnlySource(i, p)
          /\ GREENLAND[p].ghf = SENTINEL_GHF
          /\ InUnknownWith(call.data.rows[i]["index"], 0)

\* The sources of row i's new target: its own target when present and the
\* estimates left in the GHF_radial_X columns.
SourceCount(i) ==
    Cardinality({c \in ghf_cols : ~IsNaN(data.rows[i][c])})
      + (IF IsNaN(call.data.rows[i]["GHF"]) THEN 0 ELSE 1)
SourceSum(i) ==
    SumOver(data.rows[i], {c \in ghf_cols : ~IsNaN(data.rows[i][c])})
      + (IF IsNaN(call.data.rows[i]["GHF"]) THEN 0 ELSE call.data.rows[i]["GHF"])

\* C8: an ice core contributes an estimate to a record exactly when the
\* record is at most max_ice_core_dist (150 km) from it; the new target is
\* the mean (here rounded down to a thousandth) of the original target, when
\* present, and the contributing estimates; a record farther than 150 km
\* from every core keeps its target, and one with no source stays missing.
C8_ContributionWithinMaxDist ==
    Filled =>
        \A i \in RowNums(call) :
            LET o == call.data.rows[i]
                t == data.rows[i]["GHF"]
                n == SourceCount(i)
            IN  /\ \A p \in Cores :
                      IsNaN(data.rows[i][ghf_col(GREENLAND[p])])
                          <=> haversine(o, Anchor(p)) > max_ice_core_dist
                /\ n = 0 => IsNaN(t)
                /\ n > 0 => (~IsNaN(t) /\ n * t <= SourceSum(i) /\ SourceSum(i) < n * t + n)
                /\ (\A p \in Cores : haversine(o, Anchor(p)) > max_ice_core_dist)
                      => t = o["GHF"]

\* A record exactly max_ice_core_dist from a core whose estimate moved its
\* target, beside a record 151 km away that kept its target.
C8_Witness ==
    /\ Filled
    /\ \E i \in RowNums(call), p \in Cores :
          /\ haversine(call.data.rows[i], Anchor(p)) = max_ice_core_dist
          /\ ~IsNaN(call.data.rows[i]["GHF"])
          /\ data.rows[i]["GHF"] /= call.data.rows[i]["GHF"]
    /\ \E i \in RowNums(call) :
          /\ \A p \in Cores : haversine(call.data.rows[i], Anchor(p)) > max_ice_core_dist
          /\ ~IsNaN(call.data.rows[i]["GHF"])
          /\ data.rows[i]["GHF"] = call.data.rows[i]["GHF"]

\* The target of row i after imputation (the mean of its sources).
Imputed(i) == data.rows[i]["GHF"]

KnownIsClean ==
    /\ Indexes(ret.known) \cap Indexes(ret.unknown) = {}
    /\ \A k \in 1..Len(ret.known.rows) :
          ret.known.rows[k]["GHF"] \notin {0, SENTINEL_GHF, NaN}

\* C9 as claimed: every record whose target after imputation is 135.0 or
\* zero is in the unknown dataset with target zero, every other record with
\* a present target is in the known dataset; the two are disjoint and the
\* known dataset holds no target that is zero, 135.0 or missing.
C9_RoutesByTarget ==
    Filled =>
        /\ \A i \in RowNums(call) :
              LET x == call.data.rows[i]["index"] IN
              /\ Imputed(i) \in {0, SENTINEL_GHF} => InUnknownWith(x, 0)
              /\ Imputed(i) \notin {0, SENTINEL_GHF, NaN} => InKnownWith(x, Imputed(i))
        /\ KnownIsClean

\* C9 as amended: the known dataset receives the other records with a
\* present target only when they have no missing covariate; those with one
\* are in neither dataset.
C9_RoutesByTargetAndCovariates ==
    Filled =>
        /\ \A i \in RowNums(call) :
              LET o == call.data.rows[i]
                  x == o["index"]
              IN  /\ Imputed(i) \in {0, SENTINEL_GHF} => InUnknownWith(x, 0)
                  /\ (Imputed(i) \notin {0, SENTINEL_GHF, NaN} /\ CovariatesComplete(o))
                        => (InKnownWith(x, Imputed(i)) /\ ~Has(ret.unknown, x))
                  /\ (Imputed(i) \notin {0, SENTINEL_GHF, NaN} /\ ~CovariatesComplete(o))
                        => (~Has(ret.known, x) /\ ~Has(ret.unknown, x))
                  /\ IsNaN(Imputed(i)) => (~Has(ret.known, x) /\ ~Has(ret.unknown, x))
        /\ KnownIsClean

\* A record sent to the unknown dataset for its target of 135.0, beside a
\* record kept as known.
C9_Witness ==
    /\ Filled
    /\ \E i \in RowNums(call) :
          /\ Imputed(i) = SENTINEL_GHF
          /\ InUnknownWith(call.data.rows[i]["index"], 0)
    /\ \E i \in RowNums(call) :
          /\ Imputed(i) \notin {0, SENTINEL_GHF, NaN}
          /\ InKnownWith(call.data.rows[i]["index"], Imputed(i))

\* C10 as claimed: neither returned dataset contains a record with a
\* missing covariate.
C10_NoMissingCovariateReturned ==
    Filled =>
        /\ \A k \in 1..Len(ret.known.rows) : CovariatesComplete(ret.known.rows[k])
        /\ \A k \in 1..Len(ret.unknown.rows) : CovariatesComplete(ret.unknown.rows[k])

----------------------------------------------------------------------------
(* What the claims about the sweeps speak of *)

\* The radius the centers of the running sweep were sampled against.
SamplingRadius ==
    IF call.op = "plot_performance_analysis"
    THEN MinOf(call.radii, Len(call.radii))
    ELSE call.radius

\* How many records of data lie within the radius of the center.
PointsWithin(center, radius) ==
    Cardinality({i \in 1..Len(data.rows) : haversine(data.rows[i], center) < radius})

\* C11: every center returned by random_prediction_ctr is valid:
\* split_by_distance(data, center, radius) around it yields at least
\* min_points records within the radius it was sampled against.
C11_ReturnedCenterValid ==
    \A k \in 1..Len(centers) :
        PointsWithin(centers[k], SamplingRadius) >= min_points

\* m is the mean (rounded down) of n values with the sum total
IsMean(m, total, n) == n * m <= total /\ total < n * m + n

\* How many lines of the given kind stderr holds.
Written(what) == Cardinality({x \in 1..Len(stderr) : stderr[x].what = what})

\* The line of the k-th center under the j-th test ratio and the i-th
\* radius, if plot_performance_analysis wrote its lines in loop order.
PerformanceLine(i, j, k) ==
    stderr[((i - 1) * Len(performance_ts) + (j - 1)) * ncenters + k]

\* The line of the j-th noise amplitude around the k-th center, after the
\* lines of the performance sweep and the lines of the references.
NoiseLine(k, j) ==
    stderr[Len(performance_ts) * Len(performance_radii) * ncenters
           + (k - 1) * (Len(call.noise_amps) + 1) + 1 + j]

\* plot_performance_analysis has returned: each triple of radius, test
\* ratio and center was evaluated once, and row (i, j) of the table holds
\* the test ratio and the means over the centers of the measures reported.
PerformanceTableComplete ==
    /\ Len(radii_errors) = Len(performance_ts) * Len(performance_radii)
    /\ Written("performance") = Len(performance_ts) * Len(performance_radii) * ncenters
    /\ \A i \in 1..Len(performance_radii), j \in 1..Len(performance_ts) :
          LET row == radii_errors[(i - 1) * Len(performance_ts) + j]
          IN  /\ \A k \in 1..ncenters :
                    /\ PerformanceLine(i, j, k).what = "performance"
                    /\ PerformanceLine(i, j, k).status = "returned"
                    /\ PerformanceLine(i, j, k).radius = performance_radii[i]
                    /\ PerformanceLine(i, j, k).t = performance_ts[j]
                    /\ PerformanceLine(i, j, k).center = PerformanceLine(1, 1, k).center
              /\ row[1] = performance_ts[j]
              /\ IsMean(row[2], SumSeq([k \in 1..ncenters |-> PerformanceLine(i, j, k).r2], ncenters), ncenters)
              /\ IsMean(row[3], SumSeq([k \in 1..ncenters |-> PerformanceLine(i, j, k).rmse], ncenters), ncenters)

\* plot_sensitivity_analysis has returned: the mean line has one entry per
\* noise amplitude, the mean over the centers of the measures reported.
SensitivityLineComplete ==
    /\ Len(plotted) = Len(call.noise_amps)
    /\ Written("noise") = Len(call.noise_amps) * ncenters
    /\ Written("reference") = ncenters
    /\ \A j \in 1..Len(call.noise_amps) :
          /\ \A k \in 1..ncenters :
                /\ NoiseLine(k, j).what = "noise"
                /\ NoiseLine(k, j).status = "returned"
                /\ NoiseLine(k, j).noise_amp = call.noise_amps[j]
                /\ NoiseLine(k, j).center = NoiseLine(k, 1).center
          /\ IsMean(plotted[j], SumSeq([k \in 1..ncenters |-> NoiseLine(k, j).rmse], ncenters), ncenters)

\* C12: when every evaluation succeeds, the performance sweep evaluates
\* each (radius, test ratio, center) triple exactly once and its table has
\* len(test ratios) * len(radii) rows, each with the means of r2 and rmse
\* over all ncenters centers; the sensitivity sweep's mean line has
\* len(noise amplitudes) entries, each the mean over all ncenters centers.
C12_SweepTablesComplete ==
    /\ call.op = "plot_sensitivity_analysis" => PerformanceTableComplete
    /\ (call.op = "plot_sensitivity_analysis" /\ pc = "done") => SensitivityLineComplete

\* Both sweeps ran to their end, with measures that are not all zero.
C12_Witness ==
    /\ call.op = "plot_sensitivity_analysis"
    /\ pc = "done"
    /\ err = "none"
    /\ \E x \in 1..Len(radii_errors) : radii_errors[x][3] > 0
    /\ \E j \in 1..Len(plotted) : plotted[j] > 0

C15_TrainingFailureSkipsConfiguration ==
    \A x \in 1..Len(stderr) :
        (stderr[x].what /= "reference" /\ stderr[x].status = "ValueError")
            => pc /= "aborted"

\* The test set of the evaluation a line of the performance sweep reports.
TestSetOf(line) == split(data, line.center, line.t, line.radius).X_test

C14_EmptyTestSetNeverAborts ==
    (/\ stderr /= << >>
     /\ stderr[Len(stderr)].what = "average_rmse"
     /\ stderr[Len(stderr)].status = "skipped")
        => pc /= "aborted"

\* The passes of average_rmse for the i-th test size that produced an RMSE.
Scored(i) ==
    {x \in 1..Len(stderr) : /\ stderr[x].what = "average_rmse"
                            /\ stderr[x].test_size = call.test_sizes[i]
                            /\ stderr[x].status = "returned"}

RECURSIVE SumRmse(_)
\* the sum of the RMSEs of the passes in S
SumRmse(S) ==
    IF S = {} THEN 0
    ELSE LET x == CHOOSE y \in S : TRUE IN stderr[x].rmse + SumRmse(S \ {x})

\* C17: for ncenters >= 1, average_rmse returns the arithmetic mean of the
\* RMSEs of exactly the sampled centers whose test set was not empty, and
\* never fails with a division by zero, also when every center is skipped.
C17_AverageDefined ==
    call.op = "plot_average_rmse_fixed_max_dist" =>
        /\ err /= "ZeroDivisionError"
        /\ \A i \in 1..Len(plotted) :
              /\ Scored(i) /= {}
              /\ IsMean(plotted[i], SumRmse(Scored(i)), Cardinality(Scored(i)))

\* C18: in the Greenland workflow the center is bound (to the coordinates
\* of GRIP) before the first call of split that uses it: no statement reads
\* center before it is assigned.
C18_CenterAssignedBeforeUse ==
    err /= "NameError"

====
